---- MODULE Spec2Model ----
(***************************************************************************)
(* md_katex: the preprocessor that finds KaTeX formulas in Markdown lines. *)
(* A string is a sequence of one-character strings; Python's 0-based       *)
(* indices are kept and converted at each access.                          *)
(***************************************************************************)
EXTENDS Integers, Sequences, FiniteSets, TLC

\* ------------------------------------------------------------------ bounds
MaxTok == 5
MaxEscTok == 4
MaxLines == 3

\* -------------------------------------------------------------- characters
BS == "\\"
\* U+0060, the code span character: SANY rejects it inside a string literal,
\* so this one character is spelled out
BT == "BACKTICK"
DOLLAR == "$"
NL == "\n"
\* the characters that are whitespace for \s and str.rstrip/lstrip besides the
\* space, tab, newline, carriage return and form feed; a string literal
\* cannot hold them, so each is spelled out as one character of its own
\* U+000B, vertical tab
VT == "VT"
\* U+001C, file separator
FS == "FS"
\* U+001D, group separator
GS == "GS"
\* U+001E, record separator
RS == "RS"
\* U+001F, unit separator
US == "US"
\* U+0085, next line
NEL == "NEL"
\* U+00A0, no-break space
NBSP == "NBSP"
\* U+1680, ogham space mark
OGHAM_SPACE == "U+1680"
\* U+2000
EN_QUAD == "U+2000"
\* U+2001
EM_QUAD == "U+2001"
\* U+2002
EN_SPACE == "U+2002"
\* U+2003
EM_SPACE == "U+2003"
\* U+2004
THREE_PER_EM_SPACE == "U+2004"
\* U+2005
FOUR_PER_EM_SPACE == "U+2005"
\* U+2006
SIX_PER_EM_SPACE == "U+2006"
\* U+2007
FIGURE_SPACE == "U+2007"
\* U+2008
PUNCTUATION_SPACE == "U+2008"
\* U+2009
THIN_SPACE == "U+2009"
\* U+200A
HAIR_SPACE == "U+200A"
\* U+2028
LINE_SEPARATOR == "U+2028"
\* U+2029
PARAGRAPH_SEPARATOR == "U+2029"
\* U+202F, narrow no-break space
NARROW_NBSP == "U+202F"
\* U+205F, medium mathematical space
MEDIUM_MATH_SPACE == "U+205F"
\* U+3000, ideographic space
IDEOGRAPHIC_SPACE == "U+3000"

\* the 29 code points of \s in a str pattern, which are those of str.strip
Whitespace ==
    {"\t", "\n", VT, "\f", "\r", FS, GS, RS, US, " ", NEL, NBSP, OGHAM_SPACE,
     EN_QUAD, EM_QUAD, EN_SPACE, EM_SPACE, THREE_PER_EM_SPACE, FOUR_PER_EM_SPACE,
     SIX_PER_EM_SPACE, FIGURE_SPACE, PUNCTUATION_SPACE, THIN_SPACE, HAIR_SPACE,
     LINE_SEPARATOR, PARAGRAPH_SEPARATOR, NARROW_NBSP, MEDIUM_MATH_SPACE,
     IDEOGRAPHIC_SPACE}

\* ---------------------------------------------------- Python str primitives
\* len(s) - 1 >= i >= -len(s): s[i] does not raise IndexError
PyIndexOk(s, i) == i >= 0 - Len(s) /\ i < Len(s)

\* s[i], a negative i counting from the end
PyAt(s, i) == IF i < 0 THEN s[Len(s) + i + 1] ELSE s[i + 1]

PyClamp(s, i) ==
    LET j == IF i < 0 THEN Len(s) + i ELSE i
    IN  IF j < 0 THEN 0 ELSE IF j > Len(s) THEN Len(s) ELSE j

\* s[a:b]
PySlice(s, a, b) ==
    LET lo == PyClamp(s, a)
        hi == PyClamp(s, b)
    IN  IF lo >= hi THEN << >> ELSE SubSeq(s, lo + 1, hi)

\* s[a:]
PySliceFrom(s, a) == PySlice(s, a, Len(s))

\* s[:b]
PySliceTo(s, b) == PySlice(s, 0, b)

\* s.startswith(sub, i)
StartsAt(s, sub, i) ==
    /\ i >= 0
    /\ i + Len(sub) <= Len(s)
    /\ SubSeq(s, i + 1, i + Len(sub)) = sub

\* s.find(sub, from): str.index raises ValueError and re.search gives None
\* exactly when this is -1
PyFind(s, sub, from) ==
    LET hits == {i \in (IF from < 0 THEN 0 ELSE from)..(Len(s) - Len(sub)) : StartsAt(s, sub, i)}
    IN  IF hits = {} THEN -1 ELSE CHOOSE i \in hits : \A j \in hits : i <= j

\* sub in s
PyContains(s, sub) == PyFind(s, sub, 0) # -1

\* number of leading whitespace characters: len(s) - len(s.lstrip())
LeadingWs(s) ==
    LET stops == {i \in 0..Len(s) : i = Len(s) \/ s[i + 1] \notin Whitespace}
    IN  CHOOSE i \in stops : \A j \in stops : i <= j

\* s.rstrip()
PyRstrip(s) ==
    LET keeps == {i \in 0..Len(s) : i = 0 \/ s[i] \notin Whitespace}
    IN  SubSeq(s, 1, CHOOSE i \in keeps : \A j \in keeps : i >= j)

\* "\n".join(ss)
RECURSIVE PyJoinNL(_)
PyJoinNL(ss) ==
    IF Len(ss) = 0 THEN << >>
    ELSE IF Len(ss) = 1 THEN ss[1]
    ELSE ss[1] \o <<NL>> \o PyJoinNL(Tail(ss))

\* the maximal run of character c starting at index i
RunLen(s, c, i) ==
    LET stops == {j \in i..Len(s) : j = Len(s) \/ s[j + 1] # c}
    IN  (CHOOSE j \in stops : \A k \in stops : j <= k) - i

\* ---------------------------------------------------------------- delimiters
INLINE_OPEN == <<BS, "(">>
INLINE_CLOSE == <<BS, ")">>
BLOCK_OPEN == <<BS, "[">>
BLOCK_CLOSE == <<BS, "]">>

DELIM_START_END_MAP ==
    { <<INLINE_OPEN, INLINE_CLOSE>>,
      <<BLOCK_OPEN, BLOCK_CLOSE>>,
      << <<DOLLAR, BT>>, <<BT, DOLLAR>> >>,
      << <<DOLLAR, BT, BT>>, <<BT, BT, DOLLAR>> >>,
      << <<DOLLAR>>, <<DOLLAR>> >>,
      << <<DOLLAR, DOLLAR>>, <<DOLLAR, DOLLAR>> >>,
      << <<BS, "f", DOLLAR>>, <<DOLLAR, BS, "f">> >>,
      << <<BS, "f", "[">>, <<"]", BS, "f">> >> }

\* DELIM_START_END_MAP[d]
ClosingFor(d) == (CHOOSE p \in DELIM_START_END_MAP : p[1] = d)[2]

\* ------------------------------------------------------------------ escaper
EscapeClass == {"(", ")", "{", "}", "[", "]", "*", "!", BT, "+", "-", "_", "#"}

RECURSIVE EscapeFrom(_, _)
EscapeFrom(text, i) ==
    IF i > Len(text) THEN << >>
    ELSE IF text[i] = BS /\ i < Len(text) /\ text[i + 1] \in EscapeClass
         THEN <<BS, BS, text[i + 1]>> \o EscapeFrom(text, i + 2)
         ELSE <<text[i]>> \o EscapeFrom(text, i + 1)

escape_backslashes(text) == EscapeFrom(text, 1)

\* ----------------------------------------------------------- inline scanner
InlineMathItem(start, end, inline_math) ==
    [start |-> start, end |-> end, inline_math |-> inline_math]

\* CODE_SPAN_DELIM_RE.search(line, pos): the first backtick at or after pos,
\* taken together with the backtick after it when there is one
CodeSpanDelimSearch(line, pos) ==
    LET s == PyFind(line, <<BT>>, pos)
    IN  IF s = -1 THEN [start |-> -1, len |-> 0]
        ELSE [start |-> s, len |-> IF StartsAt(line, <<BT, BT>>, s) THEN 2 ELSE 1]

\* the inner loop taken when no code span delimiter lies ahead
RECURSIVE BracketScanRest(_, _)
BracketScanRest(line, math_pos) ==
    LET math_start == PyFind(line, INLINE_OPEN, math_pos)
        math_end == PyFind(line, ClosingFor(INLINE_OPEN), math_start + 2)
    IN  IF math_start = -1 THEN << >>
        ELSE IF math_end = -1 THEN BracketScanRest(line, math_start + Len(INLINE_OPEN))
        ELSE <<InlineMathItem(math_start, math_end + Len(INLINE_OPEN),
                              PySlice(line, math_start + Len(INLINE_OPEN), math_end))>>
             \o BracketScanRest(line, math_end + Len(INLINE_OPEN))

\* the inner loop taken before a code span delimiter at search_end_pos
RECURSIVE BracketScanBefore(_, _, _)
BracketScanBefore(line, math_pos, search_end_pos) ==
    LET math_start == PyFind(line, INLINE_OPEN, math_pos)
        math_end == PyFind(line, ClosingFor(INLINE_OPEN), math_start + 2)
    IN  IF math_pos > search_end_pos THEN << >>
        ELSE IF math_start = -1 THEN << >>
        ELSE IF math_start + 2 > search_end_pos THEN << >>
        ELSE IF math_end = -1
             THEN BracketScanBefore(line, math_start + Len(INLINE_OPEN), search_end_pos)
        ELSE <<InlineMathItem(math_start, math_end + Len(INLINE_OPEN),
                              PySlice(line, math_start + Len(INLINE_OPEN), math_end))>>
             \o BracketScanBefore(line, math_end + Len(INLINE_OPEN), search_end_pos)

\* the outer loop from cursor pos; raised is the IndexError of line[end + 1]
RECURSIVE ScanFrom(_, _)
ScanFrom(line, pos) ==
    LET m == CodeSpanDelimSearch(line, pos)
        start == m.start
        delim == [k \in 1..m.len |-> BT]
        before == BracketScanBefore(line, pos, start)
        close == PyFind(line, delim, start + Len(delim))
        end == close + (Len(delim) - 1)
        rest(p) == LET r == ScanFrom(line, p)
                   IN  [items |-> before \o r.items, raised |-> r.raised]
    IN  IF start = -1 THEN [items |-> BracketScanRest(line, pos), raised |-> FALSE]
        ELSE IF close = -1 THEN rest(start + Len(delim))
        ELSE IF PyAt(line, start - 1) # DOLLAR THEN rest(end)
        ELSE IF ~PyIndexOk(line, end + 1) THEN [items |-> before, raised |-> TRUE]
        ELSE IF PyAt(line, end + 1) # DOLLAR THEN rest(end)
        ELSE LET r == ScanFrom(line, end + Len(delim))
                 item == InlineMathItem(start - 1, end + 2,
                                        PySlice(line, start + 1, end - Len(delim) + 1))
             IN  [items |-> before \o <<item>> \o r.items, raised |-> r.raised]

iter_inline_katex(line) == ScanFrom(line, 0)

\* the cursors of the three loops. Each operator is one iteration: from the
\* cursor an iteration starts with to the cursor it leaves, or -1 when the
\* iteration leaves the loop (break, loop condition, IndexError)

\* while True: ... math_pos = math_start + len(math_delim) / math_end + len(math_delim)
RestLoopStep(line, math_pos) ==
    LET math_start == PyFind(line, INLINE_OPEN, math_pos)
        math_end == PyFind(line, ClosingFor(INLINE_OPEN), math_start + 2)
    IN  IF math_start = -1 THEN -1
        ELSE IF math_end = -1 THEN math_start + Len(INLINE_OPEN)
        ELSE math_end + Len(INLINE_OPEN)

\* while math_pos <= search_end_pos: ...
BeforeLoopStep(line, math_pos, search_end_pos) ==
    LET math_start == PyFind(line, INLINE_OPEN, math_pos)
        math_end == PyFind(line, ClosingFor(INLINE_OPEN), math_start + 2)
    IN  IF math_pos > search_end_pos THEN -1
        ELSE IF math_start = -1 THEN -1
        ELSE IF math_start + 2 > search_end_pos THEN -1
        ELSE IF math_end = -1 THEN math_start + Len(INLINE_OPEN)
        ELSE math_end + Len(INLINE_OPEN)

OuterLoopStepNoAdvance(line, pos) ==
    LET m == CodeSpanDelimSearch(line, pos)
        close == PyFind(line, [k \in 1..m.len |-> BT], m.start + m.len)
        end == close + (m.len - 1)
    IN  IF m.start = -1 THEN -1
        ELSE IF close = -1 THEN m.start
        ELSE IF PyAt(line, m.start - 1) # DOLLAR THEN end
        ELSE IF ~PyIndexOk(line, end + 1) THEN -1
        ELSE IF PyAt(line, end + 1) # DOLLAR THEN end
        ELSE end + m.len

\* while True: ... pos = start + len(delim) / end / end + len(delim)
OuterLoopStep(line, pos) ==
    LET m == CodeSpanDelimSearch(line, pos)
        close == PyFind(line, [k \in 1..m.len |-> BT], m.start + m.len)
        end == close + (m.len - 1)
    IN  IF m.start = -1 THEN -1
        ELSE IF close = -1 THEN m.start + m.len
        ELSE IF PyAt(line, m.start - 1) # DOLLAR THEN end
        ELSE IF ~PyIndexOk(line, end + 1) THEN -1
        ELSE IF PyAt(line, end + 1) # DOLLAR THEN end
        ELSE end + m.len

\* ------------------------------------------------------------ produced markup
SPAN_OPEN ==
    <<"<", "s", "p", "a", "n", " ", "c", "l", "a", "s", "s", "=", "\"", "m",
      "a", "t", "h", "-", "i", "n", "l", "i", "n", "e", "\"", ">", BS, "(">>

SPAN_CLOSE ==
    <<BS, ")", "<", "/", "s", "p", "a", "n", ">">>

DIV_OPEN ==
    <<"<", "d", "i", "v", " ", "c", "l", "a", "s", "s", "=", "\"", "m", "a",
      "t", "h", "-", "b", "l", "o", "c", "k", "\"", ">", BS, "[", NL>>

DIV_CLOSE ==
    <<NL, BS, "]", "<", "/", "d", "i", "v", ">">>

enclose_fence_block_math_no_dedent(block_math_lines) ==
    LET inner == SubSeq(block_math_lines, 2, Len(block_math_lines) - 1)
    IN  DIV_OPEN \o PyRstrip(PyJoinNL(inner)) \o DIV_CLOSE

enclose_fence_block_math(block_math_lines) ==
    LET indent_len == LeadingWs(block_math_lines[1])
        inner == SubSeq(block_math_lines, 2, Len(block_math_lines) - 1)
        block_math == PyRstrip(PyJoinNL([k \in 1..Len(inner) |->
                                            PySliceFrom(inner[k], indent_len)]))
    IN  DIV_OPEN \o block_math \o DIV_CLOSE

enclose_non_fence_block_math_untrimmed(block_math_lines) ==
    DIV_OPEN \o PyJoinNL(SubSeq(block_math_lines, 2, Len(block_math_lines) - 1))
             \o DIV_CLOSE

enclose_non_fence_block_math(block_math_lines) ==
    LET inner == SubSeq(block_math_lines, 2, Len(block_math_lines) - 1)
    IN  DIV_OPEN \o PyRstrip(PyJoinNL(inner)) \o DIV_CLOSE

enclose_inline_math(inline_math) ==
    escape_backslashes(SPAN_OPEN \o inline_math \o SPAN_CLOSE)

\* for code in reversed(inline_codes): line = line[:start] + enclosed + line[end:]
RECURSIVE ReplaceInline(_, _, _)
ReplaceInline(line, inline_codes, k) ==
    IF k = 0 THEN line
    ELSE ReplaceInline(PySliceTo(line, inline_codes[k].start)
                         \o enclose_inline_math(inline_codes[k].inline_math)
                         \o PySliceFrom(line, inline_codes[k].end),
                       inline_codes, k - 1)

\* ------------------------------------------------------------- line patterns
\* CODE_FENCE_RE.match(line): group(1) is prefix, group(2) is fence
CodeFenceMatch(line) ==
    LET w == LeadingWs(line)
        c == IF w < Len(line) THEN line[w + 1] ELSE ""
        n == RunLen(line, c, w)
    IN  [ok |-> c \in {BT, "~"} /\ n >= 3,
         prefix |-> SubSeq(line, 1, w),
         fence |-> SubSeq(line, w + 1, w + n),
         stop |-> w + n]

MATH == <<"m", "a", "t", "h">>

\* CODE_FENCE_MATH_START_RE.match(line)
CodeFenceMathMatch(line) ==
    LET m == CodeFenceMatch(line)
    IN  [ok |-> m.ok /\ StartsAt(line, MATH, m.stop),
         prefix |-> m.prefix, fence |-> m.fence, stop |-> m.stop + Len(MATH)]

\* BLOCK_MATH_START_DELIM_RE.match(line)
BlockMathMatch(line) == StartsAt(line, BLOCK_OPEN, 0)

IsFenceClosePrefix(line, expected) == StartsAt(PyRstrip(line), expected, 0)

\* line.rstrip() == expected_code_fence_close
IsFenceClose(line, expected) == PyRstrip(line) = expected

expected_math_block_close == BLOCK_CLOSE

\* expected_math_block_close in line
IsMathBlockClose(line) == PyContains(line, expected_math_block_close)

\* --------------------------------------------------------------------- inputs
\* lines that matter to the block state machine
FenceMath ==
    <<BT, BT, BT, "m", "a", "t", "h">>

Fence3 ==
    <<BT, BT, BT>>

Fence4 ==
    <<BT, BT, BT, BT>>

FenceMath2 ==
    <<BT, BT, BT, "m", "a", "t", "h", "2">>

IndentFenceMath ==
    <<" ", BT, BT, BT, "m", "a", "t", "h">>

IndentFence3Space ==
    <<" ", BT, BT, BT, " ">>

PlainX ==
    <<"x">>

IndentY ==
    <<" ", "y", " ">>

BracketOpen ==
    <<BS, "[">>

IndentBracketOpen ==
    <<" ", BS, "[">>

BracketCloseText ==
    <<"z", BS, "]">>

InlineX ==
    <<BS, "(", "x", BS, ")">>

BracketOneLine ==
    <<BS, "[", "x", BS, "]">>

\* lines with whitespace other than the space
Fence3VT ==
    <<BT, BT, BT, VT>>

NbspFenceMath ==
    <<NBSP, BT, BT, BT, "m", "a", "t", "h">>

NbspXVT ==
    <<NBSP, "x", VT>>

NbspFence3US ==
    <<NBSP, BT, BT, BT, US>>

XVT ==
    <<"x", VT>>

NbspOnly ==
    <<NBSP>>

BlockLines ==
    {FenceMath, Fence3, Fence4, FenceMath2,
     IndentFenceMath, IndentFence3Space, PlainX, IndentY,
     BracketOpen, IndentBracketOpen, BracketCloseText, InlineX,
     BracketOneLine}

\* the lines the specification and its scenarios name
LineFormula ==
    <<"F", "o", "r", "m", "u", "l", "a", ":", " ", BS, "(", "E", "=", "m", "c",
      "^", "2", BS, ")">>

LineGitlab2 ==
    <<"s", "e", "e", " ", "$", BT, BT, "a", BT, BT, "$", " ", "h", "e", "r",
      "e">>

LineGitlab ==
    <<"G", "i", "t", "l", "a", "b", ":", " ", "$", BT, "E", "=", "m", "c", "^",
      "2", BT, "$">>

LineNoClose ==
    <<BS, "(", "n", "o", " ", "c", "l", "o", "s", "e">>

LineBetweenSpans ==
    <<BT, "a", BT, " ", BS, "(", "x", BS, ")", " ", BT, "b", BT>>

LineAdjacentGitlab ==
    <<"$", BT, "a", BT, "$", BT, "b", BT, "$">>

LineStraddle ==
    <<BS, "(", "a", " ", BT, "b", BT, " ", "c", BS, ")">>

LineDollarInside ==
    <<BT, "a", "$", BT, " ", "b", " ", BT, "$", "c", BT>>

LineEscaped ==
    <<"a", " ", BS, "(", "x", BS, "_", "1", " ", BS, "{", "y", BS, "}", BS,
      ")", " ", "b">>

LineSum ==
    <<"x", "+", "1", "=", "2">>

FenceMathematica ==
    <<BT, BT, BT, "m", "a", "t", "h", "e", "m", "a", "t", "i", "c", "a">>

NamedLines ==
    {LineFormula, LineGitlab, LineGitlab2, LineNoClose, LineBetweenSpans, LineAdjacentGitlab,
     LineStraddle, LineDollarInside, LineEscaped}

NamedDocs ==
    {<<FenceMath, LineSum, Fence3>>,
     <<FenceMathematica, PlainX, Fence3>>,
     <<IndentFenceMath, IndentY, IndentY, IndentFence3Space>>,
     <<BracketOpen, LineEscaped, IndentY, BracketCloseText, LineFormula>>,
     <<Fence4, LineGitlab, LineFormula, BracketOpen, FenceMath, Fence4>>,
     <<Fence3, InlineX, Fence3VT, InlineX>>,
     <<NbspFenceMath, NbspXVT, NbspFence3US>>,
     <<BracketOpen, XVT, NbspOnly, BracketCloseText>>}

\* the pieces inline lines are made of
Tok == {INLINE_OPEN, INLINE_CLOSE, <<BT>>, <<DOLLAR>>, <<"a">>}

\* the pieces that exercise the escaper
EscTok == {INLINE_OPEN, INLINE_CLOSE, <<BS>>, <<"_">>, <<"a">>}

\* every concatenation of exactly n pieces of T
RECURSIVE TokExact(_, _)
TokExact(T, n) ==
    IF n = 0 THEN {<< >>}
    ELSE LET shorter == TokExact(T, n - 1)
         IN  {t \o l : t \in T, l \in shorter}

\* every concatenation of at most n pieces of T
TokLines(T, n) ==
    UNION {TokExact(T, k) : k \in 0..n}

\* every document of exactly n lines of L
RECURSIVE DocsExact(_, _)
DocsExact(L, n) ==
    IF n = 0 THEN {<< >>}
    ELSE LET shorter == DocsExact(L, n - 1)
         IN  {<<l>> \o doc : l \in L, doc \in shorter}

\* every document of at most n lines of L
DocsUpTo(L, n) ==
    UNION {DocsExact(L, k) : k \in 0..n}

InlineLines == TokLines(Tok, MaxTok) \cup TokLines(EscTok, MaxEscTok) \cup NamedLines

Documents ==
    DocsUpTo(BlockLines, MaxLines) \cup {<<l>> : l \in InlineLines} \cup NamedDocs

\* ---------------------------------------------------------------------- state
VARIABLES
    lines,                        \* the argument of run
    consumed,                     \* how many lines the for loop has taken
    is_in_code_fence_math,
    is_in_code_fence,
    is_in_math_block,
    expected_code_fence_close,
    block_math_lines,
    output,                       \* the lines yielded so far
    units,                        \* history: the input lines each output line stands for
    pc,                           \* "loop", "done" (run returned) or "raised"
    last                          \* history: what the latest step did

vars ==
    <<lines, consumed, is_in_code_fence_math, is_in_code_fence, is_in_math_block,
      expected_code_fence_close, block_math_lines, output, units, pc, last>>

\* the input lines first..last, taken together as one output line
Unit(first, final) == [first |-> first, final |-> final]

Step(kind, line, items, emitted) ==
    [kind |-> kind, line |-> line, items |-> items, emitted |-> emitted,
     expected |-> expected_code_fence_close,
     buffer |-> block_math_lines,
     outlen |-> Len(output),
     at |-> consumed + 1]

Init ==
    /\ lines \in Documents
    /\ consumed = 0
    /\ is_in_code_fence_math = FALSE
    /\ is_in_code_fence = FALSE
    /\ is_in_math_block = FALSE
    /\ expected_code_fence_close = <<BT, BT, BT>>
    /\ block_math_lines = << >>
    /\ output = << >>
    /\ units = << >>
    /\ pc = "loop"
    /\ last = [kind |-> "init", line |-> << >>, items |-> << >>, emitted |-> << >>,
               expected |-> << >>, buffer |-> << >>, outlen |-> 0, at |-> 0]

HasLine == pc = "loop" /\ consumed < Len(lines)

Normal == ~is_in_code_fence /\ ~is_in_code_fence_math /\ ~is_in_math_block

InCodeFenceNeverCloses ==
    /\ HasLine
    /\ is_in_code_fence
    /\ output' = Append(output, lines[consumed + 1])
    /\ units' = Append(units, Unit(consumed + 1, consumed + 1))
    /\ last' = Step("in_code_fence", lines[consumed + 1], << >>, lines[consumed + 1])
    /\ consumed' = consumed + 1
    /\ UNCHANGED <<lines, is_in_code_fence, is_in_code_fence_math, is_in_math_block,
                   expected_code_fence_close, block_math_lines, pc>>

\* if is_in_code_fence:
InCodeFence ==
    /\ HasLine
    /\ is_in_code_fence
    /\ LET line == lines[consumed + 1]
       IN  /\ output' = Append(output, line)
           /\ units' = Append(units, Unit(consumed + 1, consumed + 1))
           /\ is_in_code_fence' = ~IsFenceClose(line, expected_code_fence_close)
           /\ last' = Step("in_code_fence", line, << >>, line)
    /\ consumed' = consumed + 1
    /\ UNCHANGED <<lines, is_in_code_fence_math, is_in_math_block,
                   expected_code_fence_close, block_math_lines, pc>>

\* elif is_in_code_fence_math:
InCodeFenceMath ==
    /\ HasLine
    /\ ~is_in_code_fence
    /\ is_in_code_fence_math
    /\ LET line == lines[consumed + 1]
           buffer == Append(block_math_lines, line)
       IN  IF IsFenceClose(line, expected_code_fence_close)
           THEN /\ is_in_code_fence_math' = FALSE
                /\ block_math_lines' = << >>
                /\ output' = Append(output, enclose_fence_block_math(buffer))
                /\ units' = Append(units, Unit(consumed + 1 - Len(block_math_lines), consumed + 1))
                /\ last' = [Step("close_code_fence_math", line, << >>,
                                 enclose_fence_block_math(buffer))
                              EXCEPT !.buffer = buffer]
           ELSE /\ is_in_code_fence_math' = TRUE
                /\ block_math_lines' = buffer
                /\ output' = output
                /\ units' = units
                /\ last' = [Step("in_code_fence_math", line, << >>, << >>)
                              EXCEPT !.buffer = buffer]
    /\ consumed' = consumed + 1
    /\ UNCHANGED <<lines, is_in_code_fence, is_in_math_block,
                   expected_code_fence_close, pc>>

\* elif is_in_math_block:
InMathBlock ==
    /\ HasLine
    /\ ~is_in_code_fence
    /\ ~is_in_code_fence_math
    /\ is_in_math_block
    /\ LET line == lines[consumed + 1]
           buffer == Append(block_math_lines, line)
       IN  IF IsMathBlockClose(line)
           THEN /\ is_in_math_block' = FALSE
                /\ block_math_lines' = << >>
                /\ output' = Append(output, enclose_non_fence_block_math(buffer))
                /\ units' = Append(units, Unit(consumed + 1 - Len(block_math_lines), consumed + 1))
                /\ last' = [Step("close_math_block", line, << >>,
                                 enclose_non_fence_block_math(buffer))
                              EXCEPT !.buffer = buffer]
           ELSE /\ is_in_math_block' = TRUE
                /\ block_math_lines' = buffer
                /\ output' = output
                /\ units' = units
                /\ last' = [Step("in_math_block", line, << >>, << >>)
                              EXCEPT !.buffer = buffer]
    /\ consumed' = consumed + 1
    /\ UNCHANGED <<lines, is_in_code_fence, is_in_code_fence_math,
                   expected_code_fence_close, pc>>

\* else: if code_fence_math_match:
StartCodeFenceMath ==
    /\ HasLine
    /\ Normal
    /\ LET line == lines[consumed + 1]
           m == CodeFenceMathMatch(line)
       IN  /\ m.ok
           /\ is_in_code_fence_math' = TRUE
           /\ expected_code_fence_close' = m.prefix \o m.fence
           /\ block_math_lines' = Append(block_math_lines, line)
           /\ last' = [Step("start_code_fence_math", line, << >>, << >>)
                         EXCEPT !.buffer = Append(block_math_lines, line)]
    /\ consumed' = consumed + 1
    /\ UNCHANGED <<lines, is_in_code_fence, is_in_math_block, output, units, pc>>

\* else: if code_fence_match:
StartCodeFence ==
    /\ HasLine
    /\ Normal
    /\ LET line == lines[consumed + 1]
           m == CodeFenceMatch(line)
       IN  /\ ~CodeFenceMathMatch(line).ok
           /\ m.ok
           /\ is_in_code_fence' = TRUE
           /\ expected_code_fence_close' = m.prefix \o m.fence
           /\ output' = Append(output, line)
           /\ units' = Append(units, Unit(consumed + 1, consumed + 1))
           /\ last' = Step("start_code_fence", line, << >>, line)
    /\ consumed' = consumed + 1
    /\ UNCHANGED <<lines, is_in_code_fence_math, is_in_math_block,
                   block_math_lines, pc>>

StartMathBlockUnbuffered ==
    /\ HasLine
    /\ Normal
    /\ ~CodeFenceMatch(lines[consumed + 1]).ok
    /\ BlockMathMatch(lines[consumed + 1])
    /\ is_in_math_block' = TRUE
    /\ expected_code_fence_close' = ClosingFor(BLOCK_OPEN)
    /\ last' = Step("start_math_block", lines[consumed + 1], << >>, << >>)
    /\ consumed' = consumed + 1
    /\ UNCHANGED <<lines, is_in_code_fence, is_in_code_fence_math, block_math_lines,
                   output, units, pc>>

\* else: if block_math_match:
StartMathBlock ==
    /\ HasLine
    /\ Normal
    /\ LET line == lines[consumed + 1]
       IN  /\ ~CodeFenceMathMatch(line).ok
           /\ ~CodeFenceMatch(line).ok
           /\ BlockMathMatch(line)
           /\ is_in_math_block' = TRUE
           /\ expected_code_fence_close' = ClosingFor(BLOCK_OPEN)
           /\ block_math_lines' = Append(block_math_lines, line)
           /\ last' = [Step("start_math_block", line, << >>, << >>)
                         EXCEPT !.buffer = Append(block_math_lines, line)]
    /\ consumed' = consumed + 1
    /\ UNCHANGED <<lines, is_in_code_fence, is_in_code_fence_math, output, units, pc>>

\* else: the line is in no block; an IndexError of the scanner leaves run
InlineLine ==
    /\ HasLine
    /\ Normal
    /\ LET line == lines[consumed + 1]
           scan == iter_inline_katex(line)
           replaced == ReplaceInline(line, scan.items, Len(scan.items))
       IN  /\ ~CodeFenceMathMatch(line).ok
           /\ ~CodeFenceMatch(line).ok
           /\ ~BlockMathMatch(line)
           /\ IF scan.raised
              THEN /\ pc' = "raised"
                   /\ output' = output
                   /\ units' = units
                   /\ last' = Step("raise_index_error", line, << >>, << >>)
              ELSE /\ pc' = pc
                   /\ output' = Append(output, replaced)
                   /\ units' = Append(units, Unit(consumed + 1, consumed + 1))
                   /\ last' = Step("inline", line, scan.items, replaced)
    /\ consumed' = consumed + 1
    /\ UNCHANGED <<lines, is_in_code_fence, is_in_code_fence_math, is_in_math_block,
                   expected_code_fence_close, block_math_lines>>

unclosed_block_dropped(yielded, buffer) == yielded

\* if block_math_lines: for line in block_math_lines: yield line
unclosed_block(yielded, buffer) ==
    IF buffer # << >> THEN yielded \o buffer ELSE yielded

\* the for loop is exhausted: the unclosed block, then run returns
EndOfLines ==
    /\ pc = "loop"
    /\ consumed = Len(lines)
    /\ output' = unclosed_block(output, block_math_lines)
    /\ units' = units \o [k \in 1..Len(block_math_lines) |->
                         Unit(consumed - Len(block_math_lines) + k,
                              consumed - Len(block_math_lines) + k)]
    /\ pc' = "done"
    /\ last' = Step("end", << >>, << >>, << >>)
    /\ UNCHANGED <<lines, consumed, is_in_code_fence, is_in_code_fence_math,
                   is_in_math_block, expected_code_fence_close, block_math_lines>>

Next ==
    \/ InCodeFence
    \/ InCodeFenceMath
    \/ InMathBlock
    \/ StartCodeFenceMath
    \/ StartCodeFence
    \/ StartMathBlock
    \/ InlineLine
    \/ EndOfLines

Spec == Init /\ [][Next]_vars

TypeOK ==
    /\ consumed \in 0..Len(lines)
    /\ pc \in {"loop", "done", "raised"}
    /\ Len(output) <= Len(lines)

\* ==================================================================== claims
\* what the claims speak of, stated without the scanner

\* the indices at which sub occurs in s
Occurrences(s, sub) == {i \in 0..Len(s) : StartsAt(s, sub, i)}

Least(S) == CHOOSE i \in S : \A j \in S : i <= j

\* the first closing bracket delimiter after the opening one at p, or -1
ClosingAfter(line, p) ==
    LET cs == {q \in Occurrences(line, INLINE_CLOSE) : q >= p + 2}
    IN  IF cs = {} THEN -1 ELSE Least(cs)

\* the characters the escaper doubles a backslash before (section 4.1)
EscapedAfterBackslash ==
    {"(", ")", "{", "}", "[", "]", "*", "!", BT, "+", "-", "_", "#"}

\* text with every backslash that stands before such a character doubled
RECURSIVE Flatten(_)
Flatten(ss) == IF ss = << >> THEN << >> ELSE Head(ss) \o Flatten(Tail(ss))

Doubled(text) ==
    Flatten([i \in 1..Len(text) |->
               IF text[i] = BS /\ i < Len(text) /\ text[i + 1] \in EscapedAfterBackslash
               THEN <<BS, BS>> ELSE <<text[i]>>])

\* ---------------------------------------------------------------------- C1
\* C1: run completes on every document without raising; no input makes the
\* scanner's line[end + 1] leave the line.
C1_RunNeverRaises == pc # "raised"

\* ---------------------------------------------------------------------- C2
\* a line without backticks holding exactly one opening bracket delimiter
\* that has a closing one after it
OneBracketMath(line) ==
    /\ Occurrences(line, <<BT>>) = {}
    /\ Cardinality(Occurrences(line, INLINE_OPEN)) = 1
    /\ ClosingAfter(line, Least(Occurrences(line, INLINE_OPEN))) # -1

BracketPrefix(line) == SubSeq(line, 1, Least(Occurrences(line, INLINE_OPEN)))

BracketBody(line) ==
    LET p == Least(Occurrences(line, INLINE_OPEN))
    IN  SubSeq(line, p + 3, ClosingAfter(line, p))

BracketSuffix(line) ==
    LET p == Least(Occurrences(line, INLINE_OPEN))
    IN  SubSeq(line, ClosingAfter(line, p) + 3, Len(line))

\* C2: a line with one well-formed bracket formula and no backticks is
\* emitted as its prefix, the wrapper with the literal bracket delimiters,
\* one backslash each, around the escaped body, and its suffix.
C2_WrapperDelimitersLiteral ==
    (last.kind = "inline" /\ OneBracketMath(last.line)) =>
        last.emitted = BracketPrefix(last.line) \o SPAN_OPEN
                         \o Doubled(BracketBody(last.line))
                         \o SPAN_CLOSE \o BracketSuffix(last.line)

\* ---------------------------------------------------------------------- C3
\* no two backticks are adjacent: every backtick run is a single backtick
SingleBackticks(line) ==
    \A i \in Occurrences(line, <<BT>>) : ~StartsAt(line, <<BT>>, i + 1)

\* with single backticks paired in order, index i lies in a code span when an
\* odd number of backticks precede it and one follows
InCodeSpan(line, i) ==
    /\ Cardinality({t \in Occurrences(line, <<BT>>) : t < i}) % 2 = 1
    /\ \E t \in Occurrences(line, <<BT>>) : t > i

\* the line's first opening bracket delimiter is at p, is closed at q with no
\* backtick in between, and lies outside every code span
FirstBracketOutsideCode(line, p, q) ==
    /\ SingleBackticks(line)
    /\ Occurrences(line, INLINE_OPEN) # {}
    /\ p = Least(Occurrences(line, INLINE_OPEN))
    /\ q = ClosingAfter(line, p)
    /\ q # -1
    /\ ~InCodeSpan(line, p)
    /\ \A t \in Occurrences(line, <<BT>>) : t < p \/ t > q + 1

\* C3: a well-formed bracket formula outside all code spans is reported once,
\* with its body, and the text before it is emitted unaltered.
C3_BracketOutsideCodeReported ==
    last.kind = "inline" =>
        \A p, q \in 0..Len(last.line) :
            FirstBracketOutsideCode(last.line, p, q) =>
                /\ Cardinality({k \in 1..Len(last.items) :
                      last.items[k] = InlineMathItem(p, q + 2, SubSeq(last.line, p + 3, q))}) = 1
                /\ SubSeq(last.emitted, 1, p) = SubSeq(last.line, 1, p)

\* ---------------------------------------------------------------------- C4
\* the line's first backtick run starts at s, has n = 1 or 2 backticks, stands
\* right after a dollar, and is closed at c by the next backtick run, which is
\* an identical run followed by a dollar; the line has no bracket delimiter
DollarCodeSpan(line, s, n, c) ==
    /\ Occurrences(line, INLINE_OPEN) = {}
    /\ Occurrences(line, <<BT>>) # {}
    /\ s = Least(Occurrences(line, <<BT>>))
    /\ s >= 1
    /\ line[s] = DOLLAR
    /\ n \in {1, 2}
    /\ RunLen(line, BT, s) = n
    /\ c > s + n
    /\ StartsAt(line, <<BT>>, c)
    /\ \A t \in Occurrences(line, <<BT>>) : t < s + n \/ t >= c
    /\ RunLen(line, BT, c) = n
    /\ StartsAt(line, <<DOLLAR>>, c + n)

\* the line's only backticks are one run of one or two, so the run is unmatched
UnmatchedBacktickRun(line) ==
    /\ Occurrences(line, INLINE_OPEN) = {}
    /\ Occurrences(line, <<BT>>) # {}
    /\ LET s == Least(Occurrences(line, <<BT>>))
       IN  /\ RunLen(line, BT, s) \in {1, 2}
           /\ \A t \in Occurrences(line, <<BT>>) : t < s + RunLen(line, BT, s)

\* C4: a balanced code span of one or two backticks bounded by dollars is
\* reported from the leading dollar to just after the trailing one, with the
\* text strictly between the two backtick runs as its inner text; with an
\* unmatched backtick run the line is emitted as it is.
C4_DollarCodeSpanReported ==
    last.kind = "inline" =>
        /\ \A s, n, c \in 0..Len(last.line) :
              DollarCodeSpan(last.line, s, n, c) =>
                  /\ Len(last.items) >= 1
                  /\ last.items[1] = InlineMathItem(s - 1, c + n + 1,
                                                    SubSeq(last.line, s + n + 1, c))
        /\ UnmatchedBacktickRun(last.line) =>
              /\ last.items = << >>
              /\ last.emitted = last.line

\* ---------------------------------------------------------------------- C5
\* the text that follows the fence run of a fence-opening line
InfoString(line) == SubSeq(line, CodeFenceMatch(line).stop + 1, Len(line))

\* C5: a fence opening starts a fenced math block only when its info string
\* is exactly math; any other fence is plain and its lines are emitted as
\* they are.
C5_MathFenceOnlyForMath ==
    /\ last.kind = "start_code_fence_math" => InfoString(last.line) = MATH
    /\ last.kind \in {"start_code_fence", "in_code_fence"} =>
          /\ last.emitted = last.line
          /\ output = Append(SubSeq(output, 1, last.outlen), last.line)

\* ---------------------------------------------------------------------- C6
InFenceStep == last.kind \in {"in_code_fence", "in_code_fence_math", "close_code_fence_math"}

\* line, trailing whitespace ignored, is the opening fence (indent and run)
\* followed by further fence characters only
ClosesAtLeast(line, opening) ==
    LET r == PyRstrip(line)
    IN  /\ Len(r) >= Len(opening)
        /\ SubSeq(r, 1, Len(opening)) = opening
        /\ \A i \in (Len(opening) + 1)..Len(r) : r[i] = opening[Len(opening)]

\* C6 as claimed: inside a fence, a line made of the opening indent and at
\* least as many fence characters as the opening run closes the fence.
C6_LongerRunCloses ==
    (InFenceStep /\ ClosesAtLeast(last.line, last.expected)) => Normal

\* C6 as amended: inside a fence, a line closes the fence exactly when,
\* trailing whitespace ignored, it is the opening indent followed by the
\* opening run itself; a longer run leaves the fence open.
C6_ExactRunCloses ==
    /\ last.kind \in {"start_code_fence", "start_code_fence_math"} =>
          /\ expected_code_fence_close = SubSeq(last.line, 1, CodeFenceMatch(last.line).stop)
          /\ ~Normal
    /\ InFenceStep =>
          /\ Normal <=> PyRstrip(last.line) = last.expected
          /\ expected_code_fence_close = last.expected

C6_Witness ==
    /\ InFenceStep
    /\ Normal
    /\ last.line # last.expected
    /\ LeadingWs(last.expected) > 0

\* ---------------------------------------------------------------------- C7
\* C7: in Normal state a line that opens no fence and whose first characters
\* after optional whitespace are the block opening delimiter starts a bracket
\* block: it is buffered, not emitted and not scanned.
C7_IndentedBracketOpens ==
    (/\ last.kind \in {"inline", "raise_index_error", "start_math_block"}
     /\ StartsAt(last.line, BLOCK_OPEN, LeadingWs(last.line))) =>
        /\ last.kind = "start_math_block"
        /\ is_in_math_block
        /\ block_math_lines = <<last.line>>
        /\ Len(output) = last.outlen

\* ---------------------------------------------------------------------- C8
\* line without the prefix indent it starts with
StripIndent(indent, line) ==
    CHOOSE s \in {SubSeq(line, j, Len(line)) : j \in 1..(Len(line) + 1)} : indent \o s = line

\* the body the claim gives a closed fenced math block: interior lines
\* without the opening indent, joined by newline, right-trimmed
FenceMathBody(buffer) ==
    LET indent == SubSeq(buffer[1], 1, LeadingWs(buffer[1]))
    IN  PyRstrip(PyJoinNL([k \in 1..(Len(buffer) - 2) |-> StripIndent(indent, buffer[k + 1])]))

\* line without its first n characters, or empty when it has fewer
CutFirst(n, line) ==
    CHOOSE s \in {SubSeq(line, j, Len(line)) : j \in 1..(Len(line) + 1)} :
        Len(s) = (IF Len(line) > n THEN Len(line) - n ELSE 0)

\* the same body with the dedent read as a cut of the indent's length
FenceMathBodyCut(buffer) ==
    PyRstrip(PyJoinNL([k \in 1..(Len(buffer) - 2) |->
                         CutFirst(LeadingWs(buffer[1]), buffer[k + 1])]))

InteriorIndented(buffer) ==
    \A k \in 2..(Len(buffer) - 1) :
        StartsAt(buffer[k], SubSeq(buffer[1], 1, LeadingWs(buffer[1])), 0)

\* C8: a closed fenced math block of k interior lines is emitted as one line,
\* the block wrapper around the dedented, joined, right-trimmed and unescaped
\* body; while the block is buffered nothing is emitted. The dedent removes
\* as many characters as the opening indent has, which is the indent itself
\* on every interior line that carries it.
C8_FenceMathBlockWrapped ==
    /\ last.kind \in {"start_code_fence_math", "in_code_fence_math"} =>
          /\ Len(output) = last.outlen
          /\ block_math_lines = last.buffer
    /\ last.kind = "close_code_fence_math" =>
          /\ last.buffer = SubSeq(lines, last.at - Len(last.buffer) + 1, last.at)
          /\ Len(last.buffer) >= 2
          /\ Len(output) = last.outlen + 1
          /\ output[Len(output)] = last.emitted
          /\ block_math_lines = << >>
          /\ last.emitted = DIV_OPEN \o FenceMathBodyCut(last.buffer) \o DIV_CLOSE
          /\ InteriorIndented(last.buffer) =>
                last.emitted = DIV_OPEN \o FenceMathBody(last.buffer) \o DIV_CLOSE

C8_Witness ==
    /\ last.kind = "close_code_fence_math"
    /\ lines = <<FenceMath, LineSum, Fence3>>
    /\ output = <<DIV_OPEN \o LineSum \o DIV_CLOSE>>

\* ---------------------------------------------------------------------- C9
\* C9: when the document ends inside a fenced math block or a bracket block,
\* the buffered lines, from the opening line to the last input line, follow
\* the earlier output as they are; ending in a plain fence or in Normal state
\* adds nothing.
C9_UnclosedBlockVerbatim ==
    pc = "done" =>
        IF is_in_code_fence_math \/ is_in_math_block
        THEN /\ block_math_lines # << >>
             /\ block_math_lines =
                   SubSeq(lines, Len(lines) - Len(block_math_lines) + 1, Len(lines))
             /\ \/ CodeFenceMathMatch(block_math_lines[1]).ok
                \/ BlockMathMatch(block_math_lines[1])
             /\ Len(output) = last.outlen + Len(block_math_lines)
             /\ SubSeq(output, last.outlen + 1, Len(output)) = block_math_lines
        ELSE Len(output) = last.outlen

C9_Witness ==
    /\ pc = "done"
    /\ is_in_code_fence_math
    /\ last.outlen >= 1
    /\ Len(block_math_lines) >= 2
    /\ output = lines

\* --------------------------------------------------------------------- C10
\* C10: the spans the scanner reports for a line are sorted by start and do
\* not overlap.
C10_SpansSortedDisjoint ==
    last.kind = "inline" =>
        \A k \in 1..(Len(last.items) - 1) :
            /\ last.items[k].start <= last.items[k + 1].start
            /\ last.items[k].end <= last.items[k + 1].start

\* --------------------------------------------------------------------- C11
\* the scanner applied to the line a Normal line was turned into
Rescan == iter_inline_katex(last.emitted)

\* C11: scanning the output again finds no math: no inline span is reported
\* in a line that was emitted with math-inline wrappers.
C11_RescanFindsNothing ==
    last.kind = "inline" => ~Rescan.raised /\ Rescan.items = << >>

\* --------------------------------------------------------------------- C12
\* line opens a plain fence: a fence run whose info string does not begin
\* with math
OpensPlainFence(line) ==
    CodeFenceMatch(line).ok /\ ~StartsAt(line, MATH, CodeFenceMatch(line).stop)

\* the indent and fence run of a fence-opening line
IndentAndFence(line) == SubSeq(line, 1, CodeFenceMatch(line).stop)

\* C12: every line read inside a plain fence is emitted as it is, whatever it
\* contains, and nothing is buffered; the fence stays open over every line
\* that, right-trimmed, differs from the indent and fence run of the opening
\* line, and the state is Normal again after the first line that equals it.
C12_InFencePassThrough ==
    last.kind = "in_code_fence" =>
        \E j \in 1..(last.at - 1) :
            /\ OpensPlainFence(lines[j])
            /\ \A k \in (j + 1)..(last.at - 1) :
                  PyRstrip(lines[k]) # IndentAndFence(lines[j])
            /\ is_in_code_fence <=> PyRstrip(last.line) # IndentAndFence(lines[j])
            /\ Normal <=> PyRstrip(last.line) = IndentAndFence(lines[j])
            /\ Len(output) = last.outlen + 1
            /\ SubSeq(output, Len(output) - (last.at - j), Len(output))
                  = SubSeq(lines, j, last.at)
            /\ block_math_lines = << >>

C12_Witness ==
    /\ last.kind = "in_code_fence"
    /\ Normal
    /\ lines = <<Fence4, LineGitlab, LineFormula, BracketOpen, FenceMath, Fence4>>
    /\ output = lines

\* --------------------------------------------------------------------- C13
\* the input lines that closed blocks collapsed away: for each output line,
\* the number of input lines it stands for, less one
RECURSIVE Collapsed(_)
Collapsed(us) ==
    IF us = << >> THEN 0
    ELSE (Head(us).final - Head(us).first) + Collapsed(Tail(us))

\* the output lines stand for consecutive stretches of the input, in input
\* order, that together are the whole document; a stretch of several lines
\* is a closed math block, emitted as one wrapper line
InEncounterOrder ==
    /\ Len(units) = Len(output)
    /\ \A k \in 1..Len(units) :
          /\ units[k].first = (IF k = 1 THEN 1 ELSE units[k - 1].final + 1)
          /\ units[k].first <= units[k].final
          /\ units[k].final > units[k].first =>
                /\ \/ CodeFenceMathMatch(lines[units[k].first]).ok
                   \/ BlockMathMatch(lines[units[k].first])
                /\ StartsAt(output[k], DIV_OPEN, 0)
    /\ (IF units = << >> THEN 0 ELSE units[Len(units)].final) = Len(lines)

\* C13: when run has ended, the output lines are in the order their input
\* lines were met, and there are as many as input lines, less the buffered
\* lines but one of every closed math block.
C13_OneOutputPerUnit ==
    pc \in {"done", "raised"} =>
        /\ InEncounterOrder
        /\ Len(output) = Len(lines) - Collapsed(units)

\* the same, of the documents on which run returns
WhenRunReturns ==
    pc = "done" =>
        /\ InEncounterOrder
        /\ Len(output) = Len(lines) - Collapsed(units)

\* --------------------------------------------------------------------- C14
\* the reported span k of the latest line is bracket math: it starts at an
\* opening bracket delimiter
IsBracketSpan(k) ==
    /\ last.items[k].start >= 0
    /\ StartsAt(last.line, INLINE_OPEN, last.items[k].start)

\* C14: bracket math never straddles a code span: no reported bracket span
\* has a backtick between its opening and the end of its closing delimiter.
C14_BracketSpanHoldsNoBacktick ==
    last.kind = "inline" =>
        \A k \in 1..Len(last.items) :
            IsBracketSpan(k) =>
                \A i \in last.items[k].start..(last.items[k].end - 1) :
                    PyAt(last.line, i) # BT

\* --------------------------------------------------------------------- C15
\* with single backticks paired in order, the backtick at index i opens a
\* code span when an even number of backticks precede it
OpensCodeSpan(line, i) ==
    /\ StartsAt(line, <<BT>>, i)
    /\ Cardinality({t \in Occurrences(line, <<BT>>) : t < i}) % 2 = 0

\* C15: a backtick that closed a code span is not taken as the opening of
\* another: on a line of single backticks every reported GitLab span has an
\* opening backtick, never a closing one, after its dollar, so the text
\* between two code spans is not reported as math.
C15_ClosingRunNotReused ==
    (last.kind = "inline" /\ SingleBackticks(last.line)) =>
        \A k \in 1..Len(last.items) :
            (last.items[k].start >= 0 /\ ~IsBracketSpan(k)) =>
                OpensCodeSpan(last.line, last.items[k].start + 1)

\* --------------------------------------------------------------------- C16
\* the opening and closing delimiters of the three inline forms
SpanDelimiters ==
    {<<INLINE_OPEN, INLINE_CLOSE>>,
     <<<<DOLLAR, BT>>, <<BT, DOLLAR>>>>,
     <<<<DOLLAR, BT, BT>>, <<BT, BT, DOLLAR>>>>}

\* item is a span of line: it lies in the line, begins with an opening
\* delimiter, ends with the closing one, and its inner text is what stands
\* between the two
WellFormedSpan(line, item) ==
    /\ 0 <= item.start
    /\ item.start < item.end
    /\ item.end <= Len(line)
    /\ \E d \in SpanDelimiters :
          /\ Len(d[1]) + Len(d[2]) <= item.end - item.start
          /\ StartsAt(line, d[1], item.start)
          /\ StartsAt(line, d[2], item.end - Len(d[2]))
          /\ item.inline_math
                = SubSeq(line, item.start + Len(d[1]) + 1, item.end - Len(d[2]))

\* C16: every span the scanner reports lies within the line, from its
\* opening delimiter to just after its closing one, with the text between the
\* delimiters as inner text.
C16_SpansWellFormed ==
    last.kind = "inline" =>
        \A k \in 1..Len(last.items) : WellFormedSpan(last.line, last.items[k])

\* --------------------------------------------------------------------- C17
\* the body the claim gives a closed bracket block: the lines strictly
\* between the opening and the closing line, as they are, joined by newline
\* and right-trimmed
BracketBlockBody(buffer) ==
    PyRstrip(PyJoinNL([k \in 1..(Len(buffer) - 2) |-> buffer[k + 1]]))

\* C17: from the line that opens a bracket block every line is buffered and
\* nothing is emitted, whatever the opening line holds after its delimiter,
\* until the first later line that holds the closing delimiter; that line
\* emits one wrapper line around the body, empties the buffer and returns to
\* Normal state.
C17_BracketBlockWrapped ==
    /\ last.kind \in {"start_math_block", "in_math_block"} =>
          /\ is_in_math_block
          /\ Len(output) = last.outlen
          /\ block_math_lines = last.buffer
          /\ block_math_lines
                = SubSeq(lines, last.at - Len(block_math_lines) + 1, last.at)
          /\ \A k \in 2..Len(block_math_lines) :
                ~PyContains(block_math_lines[k], BLOCK_CLOSE)
    /\ last.kind = "close_math_block" =>
          /\ last.buffer = SubSeq(lines, last.at - Len(last.buffer) + 1, last.at)
          /\ Len(last.buffer) >= 2
          /\ StartsAt(last.buffer[1], BLOCK_OPEN, 0)
          /\ \A k \in 2..(Len(last.buffer) - 1) :
                ~PyContains(last.buffer[k], BLOCK_CLOSE)
          /\ PyContains(last.line, BLOCK_CLOSE)
          /\ Len(output) = last.outlen + 1
          /\ output[Len(output)]
                = DIV_OPEN \o BracketBlockBody(last.buffer) \o DIV_CLOSE
          /\ block_math_lines = << >>
          /\ Normal

C17_Witness ==
    /\ last.kind = "close_math_block"
    /\ lines = <<BracketOneLine, IndentY, BracketCloseText>>
    /\ output = <<DIV_OPEN \o <<" ", "y">> \o DIV_CLOSE>>

\* --------------------------------------------------------------------- C18
\* the four states of the document scan
InFence == is_in_code_fence /\ ~is_in_code_fence_math /\ ~is_in_math_block

InFenceMath == ~is_in_code_fence /\ is_in_code_fence_math /\ ~is_in_math_block

InBracketBlock == ~is_in_code_fence /\ ~is_in_code_fence_math /\ is_in_math_block

\* C18: between lines the scan is in exactly one of the four states, at most
\* one of the three flags being set, and the block math buffer holds lines
\* exactly in the two math block states.
C18_OneStateAndBuffer ==
    /\ Cardinality({s \in {"Normal", "InFence", "InFenceMath", "InBracketBlock"} :
                      \/ s = "Normal" /\ Normal
                      \/ s = "InFence" /\ InFence
                      \/ s = "InFenceMath" /\ InFenceMath
                      \/ s = "InBracketBlock" /\ InBracketBlock}) = 1
    /\ block_math_lines # << >> <=> (InFenceMath \/ InBracketBlock)
    /\ (Normal \/ InFence) => block_math_lines = << >>

C18_Witness ==
    /\ pc = "loop"
    /\ InBracketBlock
    /\ Len(block_math_lines) = 1
    /\ last.kind = "start_math_block"
    /\ Len(output) = 1
    /\ StartsAt(output[1], DIV_OPEN, 0)

\* --------------------------------------------------------------------- C19
\* a cursor that an iteration leaves is past the one it started with and
\* within the line
Advances(line, from, to) == to = -1 \/ (from < to /\ to <= Len(line))

\* items is the end of all
IsSuffix(items, all) ==
    /\ Len(items) <= Len(all)
    /\ items = SubSeq(all, Len(all) - Len(items) + 1, Len(all))

\* C19: on every line, from every cursor, an iteration of the scanner's outer
\* loop leaves the loop or a greater cursor within the line, also when a
\* backtick run has no closing run, and so does an iteration of either
\* bracket search loop; the cursors are the scanner's own, what it reports
\* from a cursor ending with what it reports from the next.
C19_CursorsAdvance ==
    last.kind \in {"inline", "raise_index_error"} =>
        \A pos \in 0..Len(last.line) :
            /\ Advances(last.line, pos, OuterLoopStep(last.line, pos))
            /\ Advances(last.line, pos, RestLoopStep(last.line, pos))
            /\ \A search_end_pos \in 0..Len(last.line) :
                  /\ Advances(last.line, pos, BeforeLoopStep(last.line, pos, search_end_pos))
                  /\ BeforeLoopStep(last.line, pos, search_end_pos) # -1 =>
                        IsSuffix(BracketScanBefore(last.line,
                                    BeforeLoopStep(last.line, pos, search_end_pos),
                                    search_end_pos),
                                 BracketScanBefore(last.line, pos, search_end_pos))
            /\ OuterLoopStep(last.line, pos) # -1 =>
                  /\ IsSuffix(ScanFrom(last.line, OuterLoopStep(last.line, pos)).items,
                              ScanFrom(last.line, pos).items)
                  /\ ScanFrom(last.line, OuterLoopStep(last.line, pos)).raised
                        = ScanFrom(last.line, pos).raised
            /\ RestLoopStep(last.line, pos) # -1 =>
                  IsSuffix(BracketScanRest(last.line, RestLoopStep(last.line, pos)),
                           BracketScanRest(last.line, pos))

\* a backtick without a closing one, passed by the outer loop, and a bracket
\* formula found after it by the inner loop
C19_Witness ==
    /\ last.kind = "inline"
    /\ StartsAt(last.line, <<BT>>, 0)
    /\ PyFind(last.line, <<BT>>, 1) = -1
    /\ OuterLoopStep(last.line, 0) = 1
    /\ OuterLoopStep(last.line, 1) = -1
    /\ RestLoopStep(last.line, 1) > 1
    /\ RestLoopStep(last.line, RestLoopStep(last.line, 1)) = -1
    /\ Len(last.items) = 1

\* --------------------------------------------------------------------- C20
\* text without the occurrences of the delimiter token tok
RECURSIVE Without(_, _)
Without(text, tok) ==
    IF text = << >> THEN << >>
    ELSE IF StartsAt(text, tok, 0)
         THEN Without(SubSeq(text, Len(tok) + 1, Len(text)), tok)
         ELSE <<Head(text)>> \o Without(Tail(text), tok)

NotWhitespace(c) == c \notin Whitespace /\ c # NL

\* the non-whitespace characters of text, in order
Ink(text) == SelectSeq(text, NotWhitespace)

\* the formula text of a closed bracket block: the buffered lines, less the
\* delimiters of the opening and of the closing line
BracketFormulaText(buffer) ==
    Flatten([k \in 1..Len(buffer) |->
               IF k \in {1, Len(buffer)}
               THEN Without(Without(buffer[k], BLOCK_OPEN), BLOCK_CLOSE)
               ELSE buffer[k]])

\* the formula text of a closed fenced math block: the lines between the two
\* fence lines
FenceFormulaText(buffer) ==
    Flatten([k \in 1..(Len(buffer) - 2) |-> buffer[k + 1]])

\* what a closing step emitted between the wrapper's opening and closing
EmittedBody ==
    SubSeq(last.emitted, Len(DIV_OPEN) + 1, Len(last.emitted) - Len(DIV_CLOSE))

\* C20: a closed math block keeps its formula text: the non-whitespace
\* characters of the emitted body are those of the buffered lines other than
\* the delimiter tokens, so text after the opening delimiter, text beside the
\* closing delimiter and the first characters of a fenced line indented less
\* than its fence are all in the body.
C20_NoFormulaTextLost ==
    /\ last.kind = "close_math_block" =>
          Ink(EmittedBody) = Ink(BracketFormulaText(last.buffer))
    /\ last.kind = "close_code_fence_math" =>
          Ink(EmittedBody) = Ink(FenceFormulaText(last.buffer))

====
